---- MODULE Spec2Model ----
(***************************************************************************)
(* Model of crypto_price_tracker.py: the poll / diff / present / log loop  *)
(* of main(), with the pure helpers it calls (resolve_input_coins,         *)
(* print_prices, format_pct, ensure_csv_header, append_prices_to_csv).     *)
(*                                                                         *)
(* Conventions.  Python's None is the empty tuple and an optional number   *)
(* p is the 1-tuple <<p>>; a percent change is None or the exact fraction  *)
(* <<num, den>>.  Rendered strings are tuples of one-character strings.    *)
(* The network fetch and the terminal are the environment: a fetch         *)
(* returns any response of Responses, or raises; an interrupt may arrive   *)
(* at any point of the loop.                                               *)
(***************************************************************************)
EXTENDS Integers, Sequences, FiniteSets, TLC

VARIABLES
    args,             \* argparse.Namespace: coins, interval, csv, no_csv, once, no_color
    pc,               \* position of main(): start, fetch, present, log, status, sleep, retry_sleep, stopped
    resolved_coins,   \* main: resolved_coins
    mapping,          \* main: mapping (insertion-ordered dict, as a sequence of <<token, id>>)
    interval,         \* main: interval = max(1, args.interval)
    csv_path,         \* main: csv_path
    prev_prices,      \* main: prev_prices
    data,             \* main: data, the response of the fetch of this cycle
    current_prices,   \* main: current_prices, returned by print_prices
    table,            \* the rows print_prices printed in this cycle
    fs,               \* the file at DEFAULT_CSV: whether it exists, and its rows
    fs_at_start,      \* that file as it was when the process started
    writes,           \* number of calls of append_prices_to_csv that wrote a row
    fetch_count,      \* number of calls of fetch_prices so far
    fail_streak,      \* number of failed cycles since the last successful one
    cycle_start_prev, \* prev_prices as it was when the cycle in progress began
    last_success,     \* current_prices of the last cycle that ran to its end, {} before
    slept,            \* the argument of the last time.sleep that returned, None before
    last_msg,         \* the last status line printed
    stop_cause,       \* why main() ended: none, config_error, once, interrupt
    exit_code         \* the process's exit code, None while it runs

vars == <<args, pc, resolved_coins, mapping, interval, csv_path, prev_prices,
          data, current_prices, table, fs, fs_at_start, writes, fetch_count,
          fail_streak, cycle_start_prev, last_success, slept, last_msg, stop_cause,
          exit_code>>

(***************************************************************************)
(* Bounds and input sets                                                   *)
(***************************************************************************)
MaxFetches == 3

\* the resolver is explored on coin strings of at most this many pieces
MaxTokens == 3

None == <<>>
Some(x) == <<x>>

\* the prices the source may quote: every case of the percent change for
\* bitcoin (zero, rise, fall, no change), a single quote for any other id
PricesOf(coin) == IF coin = "bitcoin" THEN {0, 40000, 50000} ELSE {3000}

DEFAULT_CSV == "crypto_prices.csv"

\* raw.split(",") of the --coins strings "", " ,", "BTC", "BTC,ETH" and
\* " eth ,btc,Bitcoin"
RawInputs ==
    { <<"">>, <<" ", "">>, <<"BTC">>, <<"BTC", "ETH">>, <<" eth ", "btc", "Bitcoin">> }

\* --interval of the sessions of Spec: a value below 1, which line 201 raises
\* to 1; the other intervals are those of WideIntervalArgs
IntervalArgs == {0}

CsvArgs == {"", DEFAULT_CSV}

Max_NoClamp(a, b) == b

Max(a, b) == IF a >= b THEN a ELSE b

Abs(n) == IF n < 0 THEN 0 - n ELSE n

Range(s) == {s[i] : i \in 1..Len(s)}

EmptyDict == [k \in {} |-> 0]

(***************************************************************************)
(* str.strip, str.upper, str.lower on the tokens the inputs are made of:    *)
(* the symbols and identifiers of SYMBOL_TO_ID in lower and upper case,    *)
(* "Bitcoin", "nonexistent-token", and "LIN[K]", which stands for the four *)
(* characters L, I, N and U+212A KELVIN SIGN                               *)
(***************************************************************************)
Strip(s) ==
    CASE s = " "     -> ""
      [] s = " eth " -> "eth"
      [] OTHER       -> s

\* str.upper: every spelling of the vocabulary that is not upper case
\* already; the KELVIN SIGN of "LIN[K]" has no other upper case
Upper(t) ==
    CASE t = "btc"               -> "BTC"
      [] t = "eth"               -> "ETH"
      [] t = "ltc"               -> "LTC"
      [] t = "doge"              -> "DOGE"
      [] t = "sol"               -> "SOL"
      [] t = "ada"               -> "ADA"
      [] t = "xrp"               -> "XRP"
      [] t = "bch"               -> "BCH"
      [] t = "dot"               -> "DOT"
      [] t = "link"              -> "LINK"
      [] t = "bnb"               -> "BNB"
      [] t = "usdt"              -> "USDT"
      [] t = "usdc"              -> "USDC"
      [] t = "matic"             -> "MATIC"
      [] t = "avax"              -> "AVAX"
      [] t = "shib"              -> "SHIB"
      [] t = "trx"               -> "TRX"
      [] t = "uni"               -> "UNI"
      [] t = "bitcoin"           -> "BITCOIN"
      [] t = "ethereum"          -> "ETHEREUM"
      [] t = "litecoin"          -> "LITECOIN"
      [] t = "dogecoin"          -> "DOGECOIN"
      [] t = "solana"            -> "SOLANA"
      [] t = "cardano"           -> "CARDANO"
      [] t = "ripple"            -> "RIPPLE"
      [] t = "bitcoin-cash"      -> "BITCOIN-CASH"
      [] t = "polkadot"          -> "POLKADOT"
      [] t = "chainlink"         -> "CHAINLINK"
      [] t = "binancecoin"       -> "BINANCECOIN"
      [] t = "tether"            -> "TETHER"
      [] t = "usd-coin"          -> "USD-COIN"
      [] t = "matic-network"     -> "MATIC-NETWORK"
      [] t = "avalanche-2"       -> "AVALANCHE-2"
      [] t = "shiba-inu"         -> "SHIBA-INU"
      [] t = "tron"              -> "TRON"
      [] t = "uniswap"           -> "UNISWAP"
      [] t = "Bitcoin"           -> "BITCOIN"
      [] t = "nonexistent-token" -> "NONEXISTENT-TOKEN"
      [] OTHER                   -> t

\* str.lower: every spelling of the vocabulary that is not lower case
\* already; the KELVIN SIGN lowers to the letter k
Lower(t) ==
    CASE t = "BTC"               -> "btc"
      [] t = "ETH"               -> "eth"
      [] t = "LTC"               -> "ltc"
      [] t = "DOGE"              -> "doge"
      [] t = "SOL"               -> "sol"
      [] t = "ADA"               -> "ada"
      [] t = "XRP"               -> "xrp"
      [] t = "BCH"               -> "bch"
      [] t = "DOT"               -> "dot"
      [] t = "LINK"              -> "link"
      [] t = "BNB"               -> "bnb"
      [] t = "USDT"              -> "usdt"
      [] t = "USDC"              -> "usdc"
      [] t = "MATIC"             -> "matic"
      [] t = "AVAX"              -> "avax"
      [] t = "SHIB"              -> "shib"
      [] t = "TRX"               -> "trx"
      [] t = "UNI"               -> "uni"
      [] t = "BITCOIN"           -> "bitcoin"
      [] t = "ETHEREUM"          -> "ethereum"
      [] t = "LITECOIN"          -> "litecoin"
      [] t = "DOGECOIN"          -> "dogecoin"
      [] t = "SOLANA"            -> "solana"
      [] t = "CARDANO"           -> "cardano"
      [] t = "RIPPLE"            -> "ripple"
      [] t = "BITCOIN-CASH"      -> "bitcoin-cash"
      [] t = "POLKADOT"          -> "polkadot"
      [] t = "CHAINLINK"         -> "chainlink"
      [] t = "BINANCECOIN"       -> "binancecoin"
      [] t = "TETHER"            -> "tether"
      [] t = "USD-COIN"          -> "usd-coin"
      [] t = "MATIC-NETWORK"     -> "matic-network"
      [] t = "AVALANCHE-2"       -> "avalanche-2"
      [] t = "SHIBA-INU"         -> "shiba-inu"
      [] t = "TRON"              -> "tron"
      [] t = "UNISWAP"           -> "uniswap"
      [] t = "Bitcoin"           -> "bitcoin"
      [] t = "NONEXISTENT-TOKEN" -> "nonexistent-token"
      [] t = "LIN[K]"            -> "link"
      [] OTHER                   -> t

SYMBOL_TO_ID ==
    [s \in {"BTC", "ETH", "LTC", "DOGE", "SOL", "ADA", "XRP", "BCH", "DOT",
            "LINK", "BNB", "USDT", "USDC", "MATIC", "AVAX", "SHIB", "TRX", "UNI"} |->
        CASE s = "BTC"   -> "bitcoin"
          [] s = "ETH"   -> "ethereum"
          [] s = "LTC"   -> "litecoin"
          [] s = "DOGE"  -> "dogecoin"
          [] s = "SOL"   -> "solana"
          [] s = "ADA"   -> "cardano"
          [] s = "XRP"   -> "ripple"
          [] s = "BCH"   -> "bitcoin-cash"
          [] s = "DOT"   -> "polkadot"
          [] s = "LINK"  -> "chainlink"
          [] s = "BNB"   -> "binancecoin"
          [] s = "USDT"  -> "tether"
          [] s = "USDC"  -> "usd-coin"
          [] s = "MATIC" -> "matic-network"
          [] s = "AVAX"  -> "avalanche-2"
          [] s = "SHIB"  -> "shiba-inu"
          [] s = "TRX"   -> "tron"
          [] s = "UNI"   -> "uniswap"]

(***************************************************************************)
(* resolve_input_coins                                                     *)
(***************************************************************************)
Tokens_KeepEmpty(pieces) ==
    [i \in 1..Len(pieces) |-> Strip(pieces[i])]

\* tokens = [t.strip() for t in raw.split(",") if t.strip()]
Tokens(pieces) ==
    LET stripped == [i \in 1..Len(pieces) |-> Strip(pieces[i])]
    IN  SelectSeq(stripped, LAMBDA t : t # "")

\* mapping[t] = cid on an insertion-ordered dict
DictSet(m, t, cid) ==
    IF \E i \in 1..Len(m) : m[i][1] = t
    THEN [i \in 1..Len(m) |-> IF m[i][1] = t THEN <<t, cid>> ELSE m[i]]
    ELSE Append(m, <<t, cid>>)

ResolveToken(t) ==
    LET up == Upper(t)
    IN  IF up \in DOMAIN SYMBOL_TO_ID THEN SYMBOL_TO_ID[up] ELSE Lower(t)

\* ResolveLoop without the "if cid not in seen" of line 86
RECURSIVE ResolveLoop_NoSeen(_, _, _, _)
ResolveLoop_NoSeen(tokens, resolved, m, seen) ==
    IF tokens = <<>>
    THEN [resolved |-> resolved, mapping |-> m]
    ELSE LET t   == Head(tokens)
             cid == ResolveToken(t)
         IN  ResolveLoop_NoSeen(Tail(tokens), Append(resolved, cid),
                                DictSet(m, t, cid), seen \cup {cid})

\* lines 78-89: the loop over the tokens
RECURSIVE ResolveLoop(_, _, _, _)
ResolveLoop(tokens, resolved, m, seen) ==
    IF tokens = <<>>
    THEN [resolved |-> resolved, mapping |-> m]
    ELSE LET t   == Head(tokens)
             cid == ResolveToken(t)
         IN  ResolveLoop(Tail(tokens),
                         IF cid \notin seen THEN Append(resolved, cid) ELSE resolved,
                         DictSet(m, t, cid),
                         seen \cup {cid})

resolve_input_coins(pieces) == ResolveLoop(Tokens(pieces), <<>>, <<>>, {})

\* ",".join(coins): the text as the sequence of its comma-free stretches and
\* its commas
RECURSIVE Join(_)
Join(coins) ==
    IF coins = <<>> THEN <<>>
    ELSE IF Len(coins) = 1 THEN <<coins[1]>>
    ELSE <<coins[1], ",">> \o Join(Tail(coins))

\* raw.split(","): the pieces between the commas of such a text; the empty
\* text has the one piece "", and a comma at either end borders a piece ""
RECURSIVE Split(_)
Split(raw) ==
    IF raw = <<>> THEN <<"">>
    ELSE IF Head(raw) = "," THEN <<"">> \o Split(Tail(raw))
    ELSE IF Len(raw) = 1 THEN <<Head(raw)>>
    ELSE <<Head(raw)>> \o Split(Tail(Tail(raw)))

(***************************************************************************)
(* colorama's Fore and Style, and the _NoColor class main() installs in    *)
(* their place under --no-color                                            *)
(***************************************************************************)
ColoramaFore ==
    [RED |-> "RED", GREEN |-> "GREEN", CYAN |-> "CYAN", MAGENTA |-> "MAGENTA",
     YELLOW |-> "YELLOW"]

ColoramaStyle == [BRIGHT |-> "BRIGHT", DIM |-> "DIM", NORMAL |-> "NORMAL"]

\* class _NoColor: RED = GREEN = CYAN = MAGENTA = YELLOW = ""
NoColor ==
    [RED |-> "", GREEN |-> "", CYAN |-> "", MAGENTA |-> "", YELLOW |-> ""]

Fore(a) == IF a.no_color THEN NoColor ELSE ColoramaFore

Style(a) == IF a.no_color THEN NoColor ELSE ColoramaStyle

(***************************************************************************)
(* format_pct: f"{sign}{delta * 100:7.2f}%"                                *)
(***************************************************************************)
DigitChar == <<"0", "1", "2", "3", "4", "5", "6", "7", "8", "9">>

RECURSIVE Digits(_)
Digits(n) ==
    IF n < 10 THEN <<DigitChar[n + 1]>>
    ELSE Digits(n \div 10) \o <<DigitChar[(n % 10) + 1]>>

RECURSIVE PadLeft(_, _)
PadLeft(s, w) == IF Len(s) >= w THEN s ELSE PadLeft(<<" ">> \o s, w)

\* delta * 100 rounded to hundredths, as a count of hundredths (magnitude)
Hundredths(delta) ==
    LET n == Abs(delta[1]) * 10000
        d == Abs(delta[2])
    IN  (2 * n + d) \div (2 * d)

\* the sign of the quotient num / den
IsNegative(delta) ==
    \/ delta[1] < 0 /\ delta[2] > 0
    \/ delta[1] > 0 /\ delta[2] < 0

\* the format spec ".2f": sign, integer digits, point, two decimals
Fixed2(delta) ==
    LET h == Hundredths(delta)
    IN  (IF IsNegative(delta) THEN <<"-">> ELSE <<>>)
        \o Digits(h \div 100) \o <<".">>
        \o <<DigitChar[((h % 100) \div 10) + 1], DigitChar[(h % 10) + 1]>>

format_pct(delta) ==
    IF delta = None
    THEN <<" ", " ", " ", "N", "/", "A", " ", " ", " ">>
    ELSE LET sign == IF ~IsNegative(delta) THEN <<"+">> ELSE <<>>
         IN  sign \o PadLeft(Fixed2(delta), 7) \o <<"%">>

(***************************************************************************)
(* format_price: f"${price:,.4f}", for the whole-number prices of PricesOf *)
(***************************************************************************)
\* the digits of n in groups of three, separated by commas
RECURSIVE Grouped(_)
Grouped(n) ==
    IF n < 1000 THEN Digits(n)
    ELSE Grouped(n \div 1000) \o <<",">>
         \o <<DigitChar[((n % 1000) \div 100) + 1],
              DigitChar[((n % 100) \div 10) + 1],
              DigitChar[(n % 10) + 1]>>

format_price(price) ==
    IF price = None
    THEN <<"N", "/", "A">>
    ELSE <<"$">> \o Grouped(price[1]) \o <<".", "0", "0", "0", "0">>

(***************************************************************************)
(* print_prices: one display unit per coin, and the current prices         *)
(***************************************************************************)
\* data.get(coin, {}).get("usd")
UsdOf(body, coin) == IF coin \in DOMAIN body THEN body[coin] ELSE None

\* prev.get(coin)
PrevOf(prev, coin) == IF coin \in DOMAIN prev THEN prev[coin] ELSE None

\* pct_change_of with the operands of the subtraction of line 155 exchanged
pct_change_of_Reversed(price, prev_price) ==
    IF price = None \/ prev_price = None
    THEN None
    ELSE IF prev_price[1] # 0
         THEN <<prev_price[1] - price[1], prev_price[1]>>
         ELSE None

\* lines 152-155: the fraction (price - prev_price) / prev_price, or None
pct_change_of(price, prev_price) ==
    IF price = None \/ prev_price = None
    THEN None
    ELSE IF prev_price[1] # 0
         THEN <<price[1] - prev_price[1], prev_price[1]>>
         ELSE None

\* IsPos with ">=" for the ">" of line 165
IsPos_OrZero(delta) == ~IsNegative(delta)

\* pct_change > 0
IsPos(delta) ==
    \/ delta[1] > 0 /\ delta[2] > 0
    \/ delta[1] < 0 /\ delta[2] < 0

DisplayUnit(coin, price, prev_price, fore) ==
    LET pct == pct_change_of(price, prev_price)
    IN  IF price = None
        THEN [coin |-> coin, price |-> price, pct_change |-> pct,
              tag |-> "missing", price_str |-> <<"N", "/", "A">>,
              price_color |-> fore.YELLOW, pct_color |-> fore.YELLOW,
              pct_str |-> format_pct(pct)]
        ELSE IF pct = None
        THEN [coin |-> coin, price |-> price, pct_change |-> pct,
              tag |-> "no-baseline", price_str |-> format_price(price),
              price_color |-> IF price[1] > 1 THEN fore.GREEN ELSE fore.RED,
              pct_color |-> fore.YELLOW,
              pct_str |-> format_pct(pct)]
        ELSE [coin |-> coin, price |-> price, pct_change |-> pct,
              tag |-> IF IsPos(pct) THEN "up"
                      ELSE IF IsNegative(pct) THEN "down" ELSE "flat",
              price_str |-> format_price(price),
              price_color |-> IF price[1] > 1 THEN fore.GREEN ELSE fore.RED,
              pct_color |-> IF IsPos(pct) THEN fore.GREEN
                            ELSE IF IsNegative(pct) THEN fore.RED ELSE fore.CYAN,
              pct_str |-> format_pct(pct)]

print_prices(coins, body, prev, fore) ==
    [current_prices |-> [c \in Range(coins) |-> UsdOf(body, c)],
     table |-> [i \in 1..Len(coins) |->
                  DisplayUnit(coins[i], UsdOf(body, coins[i]), PrevOf(prev, coins[i]), fore)]]

\* FilterDefined without its "if v is not None"
FilterDefined_KeepAll(cur) == cur

\* {k: v for k, v in current_prices.items() if v is not None}
FilterDefined(cur) ==
    [k \in {c \in DOMAIN cur : cur[c] # None} |-> cur[k]]

(***************************************************************************)
(* The log file: ensure_csv_header and append_prices_to_csv                *)
(***************************************************************************)
\* ["timestamp"] + [f"{c}_usd" for c in coins]
HeaderCols(coins) == <<"timestamp">> \o [i \in 1..Len(coins) |-> coins[i] \o "_usd"]

HeaderRow(coins) ==
    [kind |-> "header", ts |-> None, cols |-> HeaderCols(coins), vals |-> <<>>]

\* DataRow that leaves out the field of a coin without a price
DataRow_SkipMissing(coins, prices, now) ==
    [kind |-> "data", ts |-> Some(now), cols |-> coins,
     vals |-> SelectSeq([i \in 1..Len(coins) |->
                            IF coins[i] \in DOMAIN prices THEN prices[coins[i]] ELSE None],
                        LAMBDA v : v # None)]

\* [strftime(now)] + [prices.get(c, "") for c in coins]; csv.writer writes
\* None as the empty field, which is None here.  cols names the identifier
\* each field of the row holds the price of.
DataRow(coins, prices, now) ==
    [kind |-> "data", ts |-> Some(now), cols |-> coins,
     vals |-> [i \in 1..Len(coins) |->
                 IF coins[i] \in DOMAIN prices THEN prices[coins[i]] ELSE None]]

\* ensure_csv_header with the test of line 105 inverted
ensure_csv_header_Inverted(f, path, coins) ==
    IF path = "" THEN f
    ELSE IF f.exists
         THEN [exists |-> TRUE, rows |-> <<HeaderRow(coins)>>]
         ELSE f

\* ensure_csv_header without the test of line 105: open(path, "w") always
ensure_csv_header_Always(f, path, coins) ==
    IF path = "" THEN f
    ELSE [exists |-> TRUE, rows |-> <<HeaderRow(coins)>>]

\* lines 102-109: open(path, "w") and the header row, for a path that does not exist
ensure_csv_header(f, path, coins) ==
    IF path = "" THEN f
    ELSE IF ~f.exists
         THEN [exists |-> TRUE, rows |-> <<HeaderRow(coins)>>]
         ELSE f

\* lines 112-118: open(path, "a") and one data row
append_prices_to_csv(f, path, coins, prices, now) ==
    IF path = "" THEN f
    ELSE [exists |-> TRUE, rows |-> Append(f.rows, DataRow(coins, prices, now))]

(***************************************************************************)
(* The environment: what a fetch can return, and what the log file can be  *)
(* when the process starts                                                 *)
(***************************************************************************)
\* resp.json(): a dict that maps some of the ids to {"usd": p} or to {} (no
\* "usd" field), or, for a body that is no dict, a list
Responses(coins) ==
    { [kind |-> "dict", body |-> b] :
        b \in UNION { { f \in [D -> {None} \cup {Some(p) : p \in UNION {PricesOf(c) : c \in D}}] :
                            \A c \in D : f[c] = None \/ f[c][1] \in PricesOf(c) } :
                        D \in SUBSET Range(coins) } }
    \cup { [kind |-> "list", body |-> EmptyDict] }

NoData == [kind |-> "none", body |-> EmptyDict]

\* the identifier list of an earlier session that logged to the same path
OldCoins == <<"ethereum", "bitcoin">>

InitFiles ==
    { [exists |-> FALSE, rows |-> <<>>],
      [exists |-> TRUE,  rows |-> <<>>],
      [exists |-> TRUE,
       rows |-> <<HeaderRow(OldCoins),
                  DataRow(OldCoins, [c \in Range(OldCoins) |-> Some(3000)], 0)>>] }

(***************************************************************************)
(* main()                                                                  *)
(***************************************************************************)
\* the arguments parse_args can return for the command lines considered
ArgSpace ==
    [coins : RawInputs, interval : IntervalArgs, csv : CsvArgs,
     no_csv : BOOLEAN, once : BOOLEAN, no_color : BOOLEAN]

\* the process before main() has run a statement, and the disk it finds
Constructed ==
    /\ fs \in InitFiles
    /\ fs_at_start = fs
    /\ writes = 0
    /\ pc = "start"
    /\ resolved_coins = <<>>
    /\ mapping = <<>>
    /\ interval = None
    /\ csv_path = ""
    /\ prev_prices = EmptyDict
    /\ cycle_start_prev = EmptyDict
    /\ last_success = EmptyDict
    /\ slept = None
    /\ data = NoData
    /\ current_prices = EmptyDict
    /\ table = <<>>
    /\ fetch_count = 0
    /\ fail_streak = 0
    /\ last_msg = "none"
    /\ stop_cause = "none"
    /\ exit_code = None

Init ==
    /\ args \in ArgSpace
    /\ Constructed

\* CsvPathOf without the test of --no-csv
CsvPathOf_IgnoreFlag(a) == a.csv

\* line 203: csv_path = "" if args.no_csv else (args.csv or "")
CsvPathOf(a) == IF a.no_csv THEN "" ELSE a.csv

\* lines 186-215: resolve the coins, refuse to start without any, clamp the
\* interval, choose the csv path, write the header, print the mapping
Startup ==
    /\ pc = "start"
    /\ LET r == resolve_input_coins(args.coins)
       IN  /\ resolved_coins' = r.resolved
           /\ mapping' = r.mapping
           /\ IF r.resolved = <<>>
              THEN /\ last_msg' = "no_coins"
                   /\ exit_code' = Some(1)
                   /\ stop_cause' = "config_error"
                   /\ pc' = "stopped"
                   /\ UNCHANGED <<interval, csv_path, fs>>
              ELSE /\ interval' = Some(Max(1, args.interval))
                   /\ csv_path' = CsvPathOf(args)
                   /\ fs' = ensure_csv_header(fs, csv_path', r.resolved)
                   /\ last_msg' = "starting"
                   /\ pc' = "fetch"
                   /\ UNCHANGED <<exit_code, stop_cause>>
    /\ prev_prices' = EmptyDict
    /\ cycle_start_prev' = EmptyDict
    /\ UNCHANGED <<last_success, slept, fs_at_start, writes, args, data, current_prices, table, fetch_count, fail_streak>>

\* the two except clauses of the loop body: report, then retry after the
\* interval; the cycle's locals are dropped
Retry(msg) ==
    /\ last_msg' = msg
    /\ fail_streak' = fail_streak + 1
    /\ pc' = "retry_sleep"
    /\ data' = NoData
    /\ current_prices' = EmptyDict
    /\ table' = <<>>

\* line 220: fetch_prices returns the parsed response
FetchOk ==
    /\ pc = "fetch"
    /\ fetch_count < MaxFetches
    /\ \E d \in Responses(resolved_coins) : data' = d
    /\ fetch_count' = fetch_count + 1
    /\ pc' = "present"
    /\ UNCHANGED <<last_success, slept, fs_at_start, writes, args, resolved_coins, mapping, interval, csv_path, prev_prices,
                   current_prices, table, fs, fail_streak, cycle_start_prev,
                   last_msg, stop_cause, exit_code>>

\* FetchFail whose handler also forgets the previous prices
FetchFail_ResetsPrev ==
    /\ pc = "fetch"
    /\ fetch_count < MaxFetches
    /\ fetch_count' = fetch_count + 1
    /\ Retry("network_error")
    /\ prev_prices' = EmptyDict
    /\ UNCHANGED <<last_success, slept, fs_at_start, writes, args, resolved_coins, mapping, interval,
                   csv_path, fs, cycle_start_prev, stop_cause, exit_code>>

\* line 220 raises requests.RequestException; lines 234-237
FetchFail ==
    /\ pc = "fetch"
    /\ fetch_count < MaxFetches
    /\ fetch_count' = fetch_count + 1
    /\ Retry("network_error")
    /\ UNCHANGED <<last_success, slept, fs_at_start, writes, args, resolved_coins, mapping, interval, csv_path, prev_prices,
                   fs, cycle_start_prev, stop_cause, exit_code>>

\* PresentOk with the assignment of line 231 moved up to line 221
PresentOk_EarlyUpdate ==
    /\ pc = "present"
    /\ data.kind = "dict"
    /\ LET r == print_prices(resolved_coins, data.body, prev_prices, Fore(args))
       IN  /\ current_prices' = r.current_prices
           /\ table' = r.table
           /\ prev_prices' = FilterDefined(r.current_prices)
    /\ last_msg' = "table"
    /\ pc' = "log"
    /\ UNCHANGED <<last_success, slept, fs_at_start, writes, args, resolved_coins, mapping, interval, csv_path,
                   data, fs, fetch_count, fail_streak, cycle_start_prev,
                   stop_cause, exit_code>>

\* line 221: print_prices prints the table and returns the current prices
PresentOk ==
    /\ pc = "present"
    /\ data.kind = "dict"
    /\ LET r == print_prices(resolved_coins, data.body, prev_prices, Fore(args))
       IN  /\ current_prices' = r.current_prices
           /\ table' = r.table
    /\ last_msg' = "table"
    /\ pc' = "log"
    /\ UNCHANGED <<last_success, slept, fs_at_start, writes, args, resolved_coins, mapping, interval, csv_path, prev_prices,
                   data, fs, fetch_count, fail_streak, cycle_start_prev,
                   stop_cause, exit_code>>

\* PresentRaise without the except Exception clause: the exception escapes
PresentRaise_Escapes ==
    /\ pc = "present"
    /\ data.kind # "dict"
    /\ last_msg' = "traceback"
    /\ exit_code' = Some(1)
    /\ stop_cause' = "crash"
    /\ pc' = "stopped"
    /\ UNCHANGED <<last_success, slept, fs_at_start, writes, args, resolved_coins, mapping, interval, csv_path,
                   prev_prices, data, current_prices, table, fs, fetch_count,
                   fail_streak, cycle_start_prev>>

\* PresentRaise that also raises for a dict that lacks a price
PresentRaise_OnMissing ==
    /\ pc = "present"
    /\ \/ data.kind # "dict"
       \/ \E c \in Range(resolved_coins) : UsdOf(data.body, c) = None
    /\ Retry("unexpected_error")
    /\ UNCHANGED <<last_success, slept, fs_at_start, writes, args, resolved_coins, mapping, interval, csv_path, prev_prices,
                   fs, fetch_count, cycle_start_prev, stop_cause, exit_code>>

\* line 221 raises (data.get on a body that is no dict); lines 238-241
PresentRaise ==
    /\ pc = "present"
    /\ data.kind # "dict"
    /\ Retry("unexpected_error")
    /\ UNCHANGED <<last_success, slept, fs_at_start, writes, args, resolved_coins, mapping, interval, csv_path, prev_prices,
                   fs, fetch_count, cycle_start_prev, stop_cause, exit_code>>

\* lines 223-225: the row of this cycle is appended when logging is enabled;
\* the wall clock of the row is the number of the cycle
LogOk ==
    /\ pc = "log"
    /\ LET csv_row_prices == [c \in Range(resolved_coins) |-> current_prices[c]]
       IN  fs' = IF csv_path # ""
                 THEN append_prices_to_csv(fs, csv_path, resolved_coins,
                                           csv_row_prices, fetch_count)
                 ELSE fs
    /\ writes' = IF csv_path # "" THEN writes + 1 ELSE writes
    /\ pc' = "status"
    /\ UNCHANGED <<last_success, slept, fs_at_start, args, resolved_coins, mapping, interval, csv_path, prev_prices,
                   data, current_prices, table, fetch_count, fail_streak,
                   cycle_start_prev, last_msg, stop_cause, exit_code>>

\* line 115 raises OSError (the open fails); lines 238-241
LogRaise ==
    /\ pc = "log"
    /\ csv_path # ""
    /\ Retry("unexpected_error")
    /\ UNCHANGED <<last_success, slept, fs_at_start, writes, args, resolved_coins, mapping, interval, csv_path, prev_prices,
                   fs, fetch_count, cycle_start_prev, stop_cause, exit_code>>

\* Status that adds the defined prices to prev_prices instead of replacing it
Status_Merge ==
    /\ pc = "status"
    /\ IF args.once
       THEN /\ last_msg' = "last_updated"
            /\ pc' = "stopped"
            /\ stop_cause' = "once"
            /\ exit_code' = Some(0)
            /\ UNCHANGED <<prev_prices, cycle_start_prev>>
       ELSE /\ last_msg' = "next_update"
            /\ prev_prices' =
                  [c \in DOMAIN prev_prices \cup DOMAIN FilterDefined(current_prices) |->
                      IF c \in DOMAIN FilterDefined(current_prices)
                      THEN current_prices[c] ELSE prev_prices[c]]
            /\ cycle_start_prev' = prev_prices'
            /\ pc' = "sleep"
            /\ UNCHANGED <<stop_cause, exit_code>>
    /\ fail_streak' = 0
    /\ last_success' = current_prices
    /\ data' = NoData
    /\ current_prices' = EmptyDict
    /\ table' = <<>>
    /\ UNCHANGED <<slept, fs_at_start, writes, args, resolved_coins, mapping, interval, csv_path, fs, fetch_count>>

\* lines 227-231: "Last updated"; --once leaves the loop and main() returns;
\* otherwise "Next update", and the defined prices become prev_prices
Status ==
    /\ pc = "status"
    /\ IF args.once
       THEN /\ last_msg' = "last_updated"
            /\ pc' = "stopped"
            /\ stop_cause' = "once"
            /\ exit_code' = Some(0)
            /\ UNCHANGED <<prev_prices, cycle_start_prev>>
       ELSE /\ last_msg' = "next_update"
            /\ prev_prices' = FilterDefined(current_prices)
            /\ cycle_start_prev' = prev_prices'
            /\ pc' = "sleep"
            /\ UNCHANGED <<stop_cause, exit_code>>
    /\ fail_streak' = 0
    /\ last_success' = current_prices
    /\ data' = NoData
    /\ current_prices' = EmptyDict
    /\ table' = <<>>
    /\ UNCHANGED <<slept, fs_at_start, writes, args, resolved_coins, mapping, interval, csv_path, fs, fetch_count>>

\* line 232: time.sleep(interval) returns
Sleep ==
    /\ pc = "sleep"
    /\ slept' = interval
    /\ pc' = "fetch"
    /\ UNCHANGED <<last_success, fs_at_start, writes, args, resolved_coins, mapping, interval, csv_path, prev_prices,
                   data, current_prices, table, fs, fetch_count, fail_streak,
                   cycle_start_prev, last_msg, stop_cause, exit_code>>

\* lines 237 and 241: time.sleep(interval) of a handler returns
RetrySleep ==
    /\ pc = "retry_sleep"
    /\ slept' = interval
    /\ pc' = "fetch"
    /\ UNCHANGED <<last_success, fs_at_start, writes, args, resolved_coins, mapping, interval, csv_path, prev_prices,
                   data, current_prices, table, fs, fetch_count, fail_streak,
                   cycle_start_prev, last_msg, stop_cause, exit_code>>

InLoop == pc \in {"fetch", "present", "log", "status", "sleep", "retry_sleep"}

\* lines 243-245: print(Style.BRIGHT + farewell); sys.exit(0).  Where Style
\* has no attribute BRIGHT the handler raises AttributeError before it
\* prints, and the process ends with a traceback and exit code 1
KeyboardInterrupt ==
    /\ InLoop
    /\ IF "BRIGHT" \in DOMAIN Style(args)
       THEN /\ last_msg' = "farewell"
            /\ exit_code' = Some(0)
       ELSE /\ last_msg' = "traceback"
            /\ exit_code' = Some(1)
    /\ stop_cause' = "interrupt"
    /\ pc' = "stopped"
    /\ UNCHANGED <<last_success, slept, fs_at_start, writes, args, resolved_coins, mapping, interval, csv_path, prev_prices,
                   data, current_prices, table, fs, fetch_count, fail_streak,
                   cycle_start_prev>>

Next ==
    \/ Startup
    \/ FetchOk
    \/ FetchFail
    \/ PresentOk
    \/ PresentRaise
    \/ LogOk
    \/ LogRaise
    \/ Status
    \/ Sleep
    \/ RetrySleep
    \/ KeyboardInterrupt

Spec == Init /\ [][Next]_vars

\* --interval is type=int: any integer, below 1 included; the runs of one
\* coin under those intervals
WideIntervalArgs == {-1, 0, 1, 30}

InitInterval ==
    /\ args \in [coins : {<<"BTC">>}, interval : WideIntervalArgs, csv : CsvArgs,
                 no_csv : BOOLEAN, once : BOOLEAN, no_color : {FALSE}]
    /\ Constructed

SpecInterval == InitInterval /\ [][Next]_vars

\* the pieces of the coin strings the resolver is explored on: empty and
\* blank pieces, symbols and identifiers in either case, padded, unknown, and
\* the spelling of LINK that ends in the KELVIN SIGN
TokenPieces ==
    { "", " ", "BTC", "btc", " eth ", "ETH", "Bitcoin", "bitcoin",
      "nonexistent-token", "LINK", "link", "chainlink", "LIN[K]" }

\* raw.split(",") of every such coin string
CoinStrings == UNION { [1..n -> TokenPieces] : n \in 1..MaxTokens }

InitResolve ==
    /\ args \in [coins : CoinStrings, interval : {2}, csv : {DEFAULT_CSV},
                 no_csv : {FALSE}, once : {FALSE}, no_color : {FALSE}]
    /\ Constructed

\* main() up to the loop: the resolver applied to each coin string
SpecResolve == InitResolve /\ [][Startup]_vars

\* the sessions that track bitcoin and ethereum, in that order, every two
\* seconds and in color, under every logging configuration
InitSession ==
    /\ args \in [coins : {<<"BTC", "ETH">>}, interval : {2}, csv : CsvArgs,
                 no_csv : BOOLEAN, once : BOOLEAN, no_color : {FALSE}]
    /\ Constructed

SpecSession == InitSession /\ [][Next]_vars

(***************************************************************************)
(* Properties                                                              *)
(***************************************************************************)

\* C1: a failed cycle (the fetch raises, or anything else in the cycle
\* raises) leaves prev_prices as it was when that cycle began, however many
\* cycles fail in a row: while a failure streak lasts, prev_prices is what
\* the last successful cycle (or the start) left.
C1_FailedCycleKeepsPrev == fail_streak > 0 => prev_prices = cycle_start_prev

\* a successful cycle stored prices, then two cycles in a row failed
C1_Witness ==
    /\ pc = "retry_sleep"
    /\ fail_streak >= 2
    /\ prev_prices # EmptyDict

\* C2: an interrupt in any state of the loop, under every configuration,
\* stops the controller with the farewell message and exit code 0.
C2_InterruptStopsCleanly ==
    stop_cause = "interrupt" =>
        /\ pc = "stopped"
        /\ last_msg = "farewell"
        /\ exit_code = Some(0)

\* C3: in run-once mode the fetcher is invoked exactly once and the
\* controller then stops with exit code 0; it never waits and never fetches
\* a second time.
C3_RunOnceSingleFetch ==
    args.once =>
        /\ fetch_count <= 1
        /\ pc \notin {"sleep", "retry_sleep"}
        /\ (pc = "stopped" /\ stop_cause = "once" => exit_code = Some(0))

SuccessEnds == pc = "status" /\ pc' \in {"sleep", "stopped"} /\ stop_cause' # "interrupt"

NoUndefinedPrev == \A k \in DOMAIN prev_prices : prev_prices[k] # None

TableShown == pc \in {"log", "status"}

\* S[id] and P[id] of the cycle in progress
CurOf(id) == current_prices[id]

BaseOf(id) == IF id \in DOMAIN prev_prices THEN prev_prices[id] ELSE None

\* C6: for every tracked identifier the delta computed in a cycle is
\* undefined whenever the previous price is undefined or zero or the current
\* price is undefined, and otherwise is the fraction (S - P) / P.
C6_DeltaDefinition ==
    TableShown =>
        /\ Len(table) = Len(resolved_coins)
        /\ \A i \in 1..Len(table) :
             LET id == resolved_coins[i]
                 S  == CurOf(id)
                 P  == BaseOf(id)
             IN  /\ table[i].coin = id
                 /\ IF P = None \/ S = None
                    THEN table[i].pct_change = None
                    ELSE IF P[1] = 0
                         THEN table[i].pct_change = None
                         ELSE table[i].pct_change = <<S[1] - P[1], P[1]>>

\* one table with a zero baseline for bitcoin (delta undefined) and a
\* defined delta for ethereum
C6_Witness ==
    /\ TableShown
    /\ resolved_coins = <<"bitcoin", "ethereum">>
    /\ BaseOf("bitcoin") = Some(0)
    /\ CurOf("bitcoin") = Some(50000)
    /\ table[1].pct_change = None
    /\ table[2].pct_change = <<0, 3000>>

\* the classification of a display unit by the rule of the claim
ClassOf(S, P) ==
    IF S = None THEN "missing"
    ELSE IF P = None THEN "no-baseline"
    ELSE IF P[1] = 0 THEN "no-baseline"
    ELSE IF S[1] = P[1] THEN "flat"
    ELSE IF (S[1] > P[1]) = (P[1] > 0) THEN "up"
    ELSE "down"

Classified ==
    TableShown =>
        \A i \in 1..Len(table) :
            LET id == resolved_coins[i]
            IN  /\ table[i].tag = ClassOf(CurOf(id), BaseOf(id))
                /\ table[i].tag \in {"missing", "no-baseline"}
                      => table[i].pct_color = Fore(args).YELLOW
                /\ table[i].tag = "up"   => table[i].pct_color = Fore(args).GREEN
                /\ table[i].tag = "down" => table[i].pct_color = Fore(args).RED
                /\ table[i].tag = "flat" => table[i].pct_color = Fore(args).CYAN

\* a unit whose price went from 40000 to 50000
Example50000(i) ==
    /\ CurOf(resolved_coins[i]) = Some(50000)
    /\ BaseOf(resolved_coins[i]) = Some(40000)

\* C7 (as claimed): every display unit gets the one classification of the
\* rule (missing, no-baseline in the warning style, up, down, flat), and
\* 50000 against 40000 is classified up with the change string "+25.00%".
C7_ClassificationPlain ==
    /\ Classified
    /\ TableShown =>
         \A i \in 1..Len(table) :
            Example50000(i) =>
                /\ table[i].tag = "up"
                /\ table[i].pct_str = <<"+", "2", "5", ".", "0", "0", "%">>

\* C7 (amended): every display unit gets the one classification of the
\* rule, and 50000 against 40000 is classified up with the change string
\* "+  25.00%": the sign, then 25.00 right-aligned in seven characters.
C7_ClassificationPadded ==
    /\ Classified
    /\ TableShown =>
         \A i \in 1..Len(table) :
            Example50000(i) =>
                /\ table[i].tag = "up"
                /\ table[i].pct_change = <<10000, 40000>>
                /\ table[i].pct_str = <<"+", " ", " ", "2", "5", ".", "0", "0", "%">>

\* bitcoin rose from 40000 to 50000 while ethereum stayed flat
C7_Witness ==
    /\ TableShown
    /\ resolved_coins = <<"bitcoin", "ethereum">>
    /\ Example50000(1)
    /\ table[1].tag = "up"
    /\ table[2].tag = "flat"

IsPrefix(s, t) == Len(s) <= Len(t) /\ \A i \in 1..Len(s) : s[i] = t[i]

DataRowsOf(rows) == {i \in 1..Len(rows) : rows[i].kind = "data"}

\* C8: in every state of the log file, a file that existed at startup
\* included, the header row lists the identifiers in the order the fields
\* of every data row that follows it are in; the header is written only
\* when the file does not yet exist.
C8_HeaderMatchesRows ==
    /\ (fs.exists /\ fs.rows # <<>>) =>
          /\ fs.rows[1].kind = "header"
          /\ \A i \in DataRowsOf(fs.rows) : fs.rows[1].cols = HeaderCols(fs.rows[i].cols)
    /\ fs_at_start.exists => IsPrefix(fs_at_start.rows, fs.rows)

\* C9: against a path that did not exist, after n >= 1 logger writes the
\* file holds one header row, the header of the configured identifier list,
\* followed by n data rows and nothing else.
C9_OneHeaderThenRows ==
    (~fs_at_start.exists /\ writes >= 1) =>
        /\ fs.exists
        /\ Len(fs.rows) = writes + 1
        /\ fs.rows[1] = HeaderRow(resolved_coins)
        /\ \A i \in 2..Len(fs.rows) :
              /\ fs.rows[i].kind = "data"
              /\ fs.rows[i].cols = resolved_coins

\* the spec's scenario and one more: three writes against a fresh path
C9_Witness ==
    /\ ~fs_at_start.exists
    /\ writes = 3
    /\ Len(fs.rows) = 4
    /\ Len(resolved_coins) = 2

\* C10: the log is append-only: the rows of an existing log file are a
\* prefix of its rows at every later moment, through startup, successful
\* and failed cycles and interrupts.
C10_AppendOnly ==
    [][fs.exists => fs'.exists /\ IsPrefix(fs.rows, fs'.rows)]_vars

\* a file left by an earlier session, after this session wrote to it, failed
\* a cycle and was interrupted
C10_Witness ==
    /\ fs_at_start.exists
    /\ Len(fs_at_start.rows) = 2
    /\ Len(fs.rows) = 3
    /\ IsPrefix(fs_at_start.rows, fs.rows)
    /\ fail_streak >= 1
    /\ stop_cause = "interrupt"

(***************************************************************************)
(* C11                                                                     *)
(***************************************************************************)
\* the --coins string is empty or holds nothing but commas and whitespace
OnlySeparators == \A i \in 1..Len(args.coins) : args.coins[i] \in {"", " "}

\* C11: when the coin string yields no token, main() reports the error (the
\* one message), exits with code 1 and never enters the loop: nothing is
\* fetched, nothing is shown, no sleep is taken, no coin is substituted, and
\* the log file is neither created nor written.
C11_NoCoinsRefused ==
    (OnlySeparators /\ pc # "start") =>
        /\ pc = "stopped"
        /\ stop_cause = "config_error"
        /\ exit_code = Some(1)
        /\ last_msg = "no_coins"
        /\ resolved_coins = <<>>
        /\ mapping = <<>>
        /\ fetch_count = 0
        /\ fail_streak = 0
        /\ table = <<>>
        /\ slept = None
        /\ fs = fs_at_start
        /\ writes = 0

C11_Witness ==
    /\ args.coins = <<" ", "">>
    /\ ~args.no_csv
    /\ args.csv = DEFAULT_CSV
    /\ pc = "stopped"
    /\ exit_code = Some(1)
    /\ ~fs.exists

(***************************************************************************)
(* C12                                                                     *)
(***************************************************************************)
\* the configured interval when it is at least 1, and 1 when it is below 1
EffectiveInterval == IF args.interval >= 1 THEN args.interval ELSE 1

\* C12: every wait that runs to its end, the one after a successful cycle and
\* the one after a failed cycle alike, sleeps exactly the effective interval
\* (the configured value, or 1 when that is zero or negative), whatever the
\* number of failures in a row; and nothing else sleeps.
C12_WaitIsEffectiveInterval ==
    [][ /\ (pc = "sleep" /\ pc' = "fetch") => slept' = Some(EffectiveInterval)
        /\ (pc = "retry_sleep" /\ pc' = "fetch") => slept' = Some(EffectiveInterval)
        /\ (slept' # slept) => (pc \in {"sleep", "retry_sleep"} /\ pc' = "fetch")
      ]_vars

\* the wait after the second failure in a row, under a negative interval
C12_Witness ==
    /\ args.interval < 0
    /\ fail_streak = 2
    /\ pc = "fetch"
    /\ slept = Some(1)

(***************************************************************************)
(* C13                                                                     *)
(***************************************************************************)
\* the response body holds no price for id: no entry, or an entry without
\* the price field
Lacks(body, id) == IF id \in DOMAIN body THEN body[id] = None ELSE TRUE

\* the last row of the log file
LastRow(f) == f.rows[Len(f.rows)]

\* C13: a response that is a dict is a successful cycle however many tracked
\* identifiers or price fields it lacks: the table is printed with the
\* lacking identifiers as missing (N/A), no error or warning is reported and
\* the failure path is not taken, the row logged holds an empty field for
\* each of them, prev_prices becomes exactly the identifiers that have a
\* price, and the loop goes on to its wait.
C13_PartialDataIsSuccess ==
    [][ /\ (pc = "present" /\ data.kind = "dict" /\ pc' # "stopped") =>
            /\ pc' = "log"
            /\ last_msg' = "table"
            /\ fail_streak' = fail_streak
            /\ Len(table') = Len(resolved_coins)
            /\ \A i \in 1..Len(resolved_coins) :
                 /\ table'[i].coin = resolved_coins[i]
                 /\ Lacks(data.body, resolved_coins[i]) =>
                      /\ table'[i].tag = "missing"
                      /\ table'[i].price_str = <<"N", "/", "A">>
                      /\ table'[i].pct_change = None
                      /\ current_prices'[resolved_coins[i]] = None
                 /\ ~Lacks(data.body, resolved_coins[i]) =>
                      /\ table'[i].tag # "missing"
                      /\ current_prices'[resolved_coins[i]] = data.body[resolved_coins[i]]
        /\ (pc = "log" /\ pc' = "status" /\ csv_path # "") =>
            /\ Len(fs'.rows) = Len(fs.rows) + 1
            /\ LastRow(fs').kind = "data"
            /\ Len(LastRow(fs').vals) = Len(resolved_coins)
            /\ \A i \in 1..Len(resolved_coins) :
                 LastRow(fs').vals[i] =
                    IF Lacks(data.body, resolved_coins[i])
                    THEN None ELSE data.body[resolved_coins[i]]
        /\ (pc = "status" /\ pc' # "stopped") =>
            /\ pc' = "sleep"
            /\ last_msg' = "next_update"
            /\ fail_streak' = 0
            /\ DOMAIN prev_prices' =
                  {c \in Range(resolved_coins) : ~Lacks(data.body, c)}
            /\ \A c \in DOMAIN prev_prices' : prev_prices'[c] = data.body[c]
      ]_vars

\* the first cycle got a price for ethereum and none for bitcoin, logged its
\* row, kept ethereum alone as previous price, and waited
C13_Witness ==
    /\ pc = "fetch"
    /\ fetch_count = 1
    /\ fail_streak = 0
    /\ slept = Some(2)
    /\ writes = 1
    /\ LastRow(fs).vals = <<None, Some(3000)>>
    /\ DOMAIN prev_prices = {"ethereum"}

(***************************************************************************)
(* C14, C15                                                                *)
(***************************************************************************)
\* the identifier each token of the coin string produces, token by token
Produced ==
    LET toks == Tokens(args.coins)
    IN  [i \in 1..Len(toks) |-> ResolveToken(toks[i])]

\* where an identifier is produced first
FirstAt(id) ==
    CHOOSE k \in 1..Len(Produced) :
        Produced[k] = id /\ \A l \in 1..(k - 1) : Produced[l] # id

\* C14: for every coin string the resolver returns (a) the identifiers its
\* tokens produce (the table's identifier for a token whose upper case is a
\* symbol, the token in lower case otherwise), each once, in the order of
\* their first production, and (b) a mapping with every token as a key
\* exactly once, mapped to the identifier it produces, which is in the list;
\* "BTC,ETH,nonexistent-token" gives [bitcoin, ethereum, nonexistent-token].
C14_ResolveContract ==
    pc # "start" =>
        /\ \A i, j \in 1..Len(resolved_coins) :
               i # j => resolved_coins[i] # resolved_coins[j]
        /\ Range(resolved_coins) = Range(Produced)
        /\ \A i, j \in 1..Len(resolved_coins) :
               i < j => FirstAt(resolved_coins[i]) < FirstAt(resolved_coins[j])
        /\ \A i, j \in 1..Len(mapping) : i # j => mapping[i][1] # mapping[j][1]
        /\ {mapping[i][1] : i \in 1..Len(mapping)} = Range(Tokens(args.coins))
        /\ \A i \in 1..Len(mapping) :
               /\ mapping[i][2] \in Range(resolved_coins)
               /\ mapping[i][2] = ResolveToken(mapping[i][1])
        /\ args.coins = <<"BTC", "ETH", "nonexistent-token">> =>
               /\ resolved_coins = <<"bitcoin", "ethereum", "nonexistent-token">>
               /\ mapping = << <<"BTC", "bitcoin">>, <<"ETH", "ethereum">>,
                               <<"nonexistent-token", "nonexistent-token">> >>

\* three tokens, two of them spellings of one identifier
C14_Witness ==
    /\ pc = "fetch"
    /\ args.coins = <<"btc", " eth ", "Bitcoin">>
    /\ resolved_coins = <<"bitcoin", "ethereum">>
    /\ Len(mapping) = 3

\* C15: resolving the comma-joined identifier list the resolver returned
\* gives that same list again.
C15_ResolveIdempotent ==
    pc # "start" =>
        resolve_input_coins(Split(Join(resolved_coins))).resolved = resolved_coins

(***************************************************************************)
(* C16                                                                     *)
(***************************************************************************)
\* logging is disabled: --no-csv, whatever --csv says, or an empty --csv
LoggingDisabled == args.no_csv \/ args.csv = ""

\* C16: with logging disabled no step of startup or of any cycle creates or
\* writes the file: the disk stays as the process found it.  The logging
\* step of a cycle does nothing and cannot fail, and the cycle goes on as it
\* does with logging enabled: the table and the prices are untouched, the
\* status step keeps the defined prices as prev_prices, and the wait is the
\* interval.
C16_DisabledLoggingTouchesNoFile ==
    [][ LoggingDisabled =>
          /\ fs' = fs
          /\ fs' = fs_at_start
          /\ writes' = 0
          /\ pc # "start" => csv_path = ""
          /\ (pc = "log" /\ pc' # "stopped") =>
                /\ pc' = "status"
                /\ UNCHANGED <<prev_prices, current_prices, table, data,
                               last_msg, fail_streak, fetch_count>>
          /\ (pc = "status" /\ pc' # "stopped") =>
                /\ pc' = "sleep"
                /\ DOMAIN prev_prices' =
                      {c \in DOMAIN current_prices : current_prices[c] # None}
                /\ \A c \in DOMAIN prev_prices' : prev_prices'[c] = current_prices[c]
          /\ (pc = "sleep" /\ pc' = "fetch") => slept' = interval
      ]_vars

\* two full cycles under --no-csv with the default path, and no file
C16_Witness ==
    /\ args.no_csv
    /\ args.csv = DEFAULT_CSV
    /\ ~fs.exists
    /\ pc = "fetch"
    /\ fetch_count = 2
    /\ fail_streak = 0
    /\ DOMAIN prev_prices = {"bitcoin", "ethereum"}
    /\ slept = Some(2)

(***************************************************************************)
(* C17                                                                     *)
(***************************************************************************)
LoggingEnabled == ~args.no_csv /\ args.csv # ""

\* the rows this process has written below what it found (the header
\* included when it created the file)
SessionRows == SubSeq(fs.rows, Len(fs.rows) - writes + 1, Len(fs.rows))

\* C17: with logging enabled, a cycle that passes its logging step appends
\* exactly one row: the data row of that cycle, with the price of each
\* tracked identifier in list order and the empty field where the price is
\* missing; no other step of a cycle, and so no cycle that fails in the
\* fetch or in the presentation, appends a row.  The rows of the session
\* are therefore those of its successful cycles, one each, in cycle order.
C17_OneRowPerSuccessfulCycle ==
    [][ (LoggingEnabled /\ pc # "start") =>
          /\ (pc = "log" /\ pc' = "status") =>
                /\ Len(fs'.rows) = Len(fs.rows) + 1
                /\ IsPrefix(fs.rows, fs'.rows)
                /\ LastRow(fs').kind = "data"
                /\ LastRow(fs').ts = Some(fetch_count)
                /\ LastRow(fs').cols = resolved_coins
                /\ Len(LastRow(fs').vals) = Len(resolved_coins)
                /\ \A i \in 1..Len(resolved_coins) :
                     LastRow(fs').vals[i] = table[i].price
          /\ ~(pc = "log" /\ pc' = "status") => fs' = fs
          /\ (pc \in {"fetch", "present"} /\ pc' = "retry_sleep") => fs' = fs
          /\ Len(SessionRows) = writes
          /\ \A i \in 1..writes :
                /\ SessionRows[i].kind = "data"
                /\ SessionRows[i].ts[1] <= fetch_count
                /\ i < writes => SessionRows[i].ts[1] < SessionRows[i + 1].ts[1]
      ]_vars

\* cycle 1 logged its row, cycle 2 failed, cycle 3 logged a row with the
\* empty field for bitcoin
C17_Witness ==
    /\ LoggingEnabled
    /\ pc = "status"
    /\ writes = 2
    /\ fetch_count = 3
    /\ SessionRows[1].ts = Some(1)
    /\ SessionRows[2].ts = Some(3)
    /\ SessionRows[2].vals = <<None, Some(3000)>>

(***************************************************************************)
(* C18, C19                                                                *)
(***************************************************************************)
\* the price of id in the filtered snapshot of the last successful cycle:
\* undefined when there was no such cycle or the price was missing in it
Baseline(id) == IF id \in DOMAIN last_success THEN last_success[id] ELSE None

\* the delta of a current price S against a baseline P
DeltaOf(S, P) ==
    IF S = None \/ P = None THEN None
    ELSE IF P[1] = 0 THEN None
    ELSE <<S[1] - P[1], P[1]>>

\* C18: the deltas of every table printed are those of the cycle's prices
\* against the filtered snapshot of the most recent cycle that ran to its
\* end, whatever number of failed cycles lies in between; before the first
\* such cycle that snapshot is empty and every delta is undefined.  While
\* the loop runs, prev_prices is that filtered snapshot.
C18_DeltaAgainstLastSuccess ==
    [][ /\ InLoop =>
            /\ DOMAIN prev_prices =
                  {c \in DOMAIN last_success : last_success[c] # None}
            /\ \A c \in DOMAIN prev_prices : prev_prices[c] = last_success[c]
        /\ (pc = "present" /\ pc' = "log") =>
            /\ \A i \in 1..Len(resolved_coins) :
                 table'[i].pct_change =
                    DeltaOf(current_prices'[resolved_coins[i]],
                            Baseline(resolved_coins[i]))
            /\ last_success = EmptyDict =>
                 \A i \in 1..Len(resolved_coins) : table'[i].pct_change = None
      ]_vars

\* cycle 1 gave 40000, cycle 2 failed, the table of cycle 3 shows 50000
\* against the 40000 of cycle 1
C18_Witness ==
    /\ pc = "log"
    /\ fetch_count = 3
    /\ fail_streak = 1
    /\ Baseline("bitcoin") = Some(40000)
    /\ current_prices["bitcoin"] = Some(50000)
    /\ table[1].pct_change = <<10000, 40000>>

\* C19: an identifier whose price was missing in the last successful cycle
\* has no baseline in the next one: its delta there is undefined, and it is
\* shown as no-baseline when it has a price again, whatever prices it had in
\* the cycles before.
C19_MissingDropsBaseline ==
    [][ (pc = "present" /\ pc' = "log") =>
            \A i \in 1..Len(resolved_coins) :
               (/\ resolved_coins[i] \in DOMAIN last_success
                /\ last_success[resolved_coins[i]] = None) =>
                    /\ table'[i].pct_change = None
                    /\ table'[i].pct_color = Fore(args).YELLOW
                    /\ table'[i].tag =
                          IF current_prices'[resolved_coins[i]] = None
                          THEN "missing" ELSE "no-baseline"
      ]_vars

\* the log of a fresh path holds bitcoin at 40000 in cycle 1 and missing in
\* cycle 2; the table of cycle 3 shows it at 50000 without a baseline
C19_Witness ==
    /\ LoggingEnabled
    /\ ~fs_at_start.exists
    /\ pc = "log"
    /\ fetch_count = 3
    /\ writes = 2
    /\ fs.rows[2].vals[1] = Some(40000)
    /\ fs.rows[3].vals[1] = None
    /\ current_prices["bitcoin"] = Some(50000)
    /\ table[1].coin = "bitcoin"
    /\ table[1].tag = "no-baseline"

====
